---------------------------- MODULE Spec2Model ----------------------------
(***************************************************************************)
(* Model of the task timer: Task (src/src/task/mod.rs, lines 36-133) and   *)
(* TaskManager (lines 145-427).  A manager is the record                   *)
(* [tasks, active_task_index]; every method is an operator from the        *)
(* manager (and the clock reading) to a result record                      *)
(* [err, msg, args, m, ret], and every action applies one method to the    *)
(* state.                                                                  *)
(*                                                                         *)
(* Option<usize> and Option<DateTime> are modelled as integers with None   *)
(* == -1.  Indices are 0-based as in the source; TLA+ sequences are        *)
(* 1-based, so tasks[i] of the source is m.tasks[i + 1] here.              *)
(* Each task carries a field id, the ordinal of its creation.  The source  *)
(* has no such field: it is a history label used only to say "the same     *)
(* task" in the properties.  The fields ended and open are history as     *)
(* well: the time spent in the sessions of the task that have ended and    *)
(* the start of the session still open, written down by the actions from   *)
(* the status changes and the clock alone.  No operator that models a      *)
(* method reads or writes the three history fields.                        *)
(***************************************************************************)
EXTENDS Integers, Sequences, FiniteSets, TLC

VARIABLES
    tasks,              \* TaskManager.tasks
    active_task_index,  \* TaskManager.active_task_index
    single,             \* a Task used without a manager: <<>> or <<task>>
    now,                \* what Utc::now() returns
    nextId,             \* ordinal of the next task created (history)
    last,               \* the last call and what it returned
    fs,                 \* the store: its two paths and the files
    procs,              \* the invocations of the program in progress
    seen,               \* what a reader of the store read last
    hist                \* what the invocations have done so far (history)

vars == <<tasks, active_task_index, single, now, nextId, last, fs, procs, seen, hist>>

store == <<fs, procs, seen, hist>>

None == -1

MAX_TASKS == 10

\* ------------------------------------------------------------------ bounds
\* Spec: short lists, every call recorded whether it succeeds or fails, a
\* clock that moves in both directions.
MaxLen == 2
MaxTime == 1
MaxAcc == MaxTime
\* SpecRet: lists one longer than the retention cap, so that cleanup
\* rewrites them; only calls that change the manager; the clock advances by
\* one at every start_task.
MaxLenRet == 11
\* SpecDel: lists long enough to have tasks before and behind the one a
\* delete removes; every call recorded whether it succeeds or fails; the
\* clock advances by one at every start_task.
MaxLenDel == 5
\* SpecRen: start, pause, resume, complete and rename_task with every index
\* and every label of RenameLabels, on lists of up to MaxLenRen tasks.
MaxLenRen == 3
\* SpecSave: invocations of the program one after the other on a store that
\* starts missing, at the retention cap or cut off.
MaxInv == 3
\* SpecRace: invocations of two processes at once on the same stores.
MaxRaceInv == 2
\* SpecClean: cleanup_old_tasks applied to lists of MAX_TASKS to MaxLenClean
\* tasks in every arrangement of Paused and Completed, with creation times
\* that rise, fall or are all equal along the list.
MaxLenClean == 11

\* ------------------------------------------------------------- TaskStatus
TaskStatus == {"Running", "Paused", "Completed"}

\* ------------------------------------------------------------------- Task
new(id, label, t) ==
    [label |-> label, status |-> "Running", created_at |-> t,
     started_at |-> t, accumulated_duration |-> 0,
     id |-> id, ended |-> 0, open |-> None]

is_running(task) == task.status = "Running"

is_paused(task) == task.status = "Paused"

is_completed(task) == task.status = "Completed"

\* Mutant of elapsed_since: a negative difference is returned as it is.
elapsed_since_signed(started_at, t) == [ok |-> TRUE, d |-> t - started_at]

\* Mutant of elapsed_since: a negative difference counts as zero.
elapsed_since_saturating(started_at, t) ==
    IF t - started_at < 0 THEN [ok |-> TRUE, d |-> 0]
    ELSE [ok |-> TRUE, d |-> t - started_at]

\* signed_duration_since(started_at).to_std(): an error when negative.
elapsed_since(started_at, t) ==
    IF t - started_at < 0 THEN [ok |-> FALSE, d |-> 0]
    ELSE [ok |-> TRUE, d |-> t - started_at]

\* Mutant of pause: forgets to clear started_at.
pause_keeps_started_at(task, t) ==
    CASE task.status = "Running" ->
           LET e == elapsed_since(task.started_at, t)
           IN IF ~e.ok
              THEN [err |-> "InvalidDuration", task |-> task]
              ELSE [err |-> "Ok",
                    task |-> [task EXCEPT
                                !.accumulated_duration = @ + e.d,
                                !.status = "Paused"]]
      [] task.status = "Paused" -> [err |-> "TaskAlreadyPaused", task |-> task]
      [] OTHER -> [err |-> "TaskCompleted", task |-> task]

\* Mutant of pause: pausing a Paused task is accepted as a no-op.
pause_idempotent(task, t) ==
    CASE task.status = "Running" ->
           LET e == elapsed_since(task.started_at, t)
           IN IF ~e.ok
              THEN [err |-> "InvalidDuration", task |-> task]
              ELSE [err |-> "Ok",
                    task |-> [task EXCEPT
                                !.accumulated_duration = @ + e.d,
                                !.status = "Paused",
                                !.started_at = None]]
      [] task.status = "Paused" -> [err |-> "Ok", task |-> task]
      [] OTHER -> [err |-> "TaskCompleted", task |-> task]

pause(task, t) ==
    CASE task.status = "Running" ->
           IF task.started_at # None
           THEN LET e == elapsed_since(task.started_at, t)
                IN IF ~e.ok
                   THEN [err |-> "InvalidDuration", task |-> task]
                   ELSE [err |-> "Ok",
                         task |-> [task EXCEPT
                                     !.accumulated_duration = @ + e.d,
                                     !.status = "Paused",
                                     !.started_at = None]]
           ELSE [err |-> "InvalidState", task |-> task]
      [] task.status = "Paused" -> [err |-> "TaskAlreadyPaused", task |-> task]
      [] OTHER -> [err |-> "TaskCompleted", task |-> task]

\* Mutant of resume: a Completed task can be resumed.
resume_from_completed(task, t) ==
    CASE task.status \in {"Paused", "Completed"} ->
           [err |-> "Ok",
            task |-> [task EXCEPT !.status = "Running", !.started_at = t]]
      [] OTHER -> [err |-> "TaskAlreadyRunning", task |-> task]

resume(task, t) ==
    CASE task.status = "Paused" ->
           [err |-> "Ok",
            task |-> [task EXCEPT !.status = "Running", !.started_at = t]]
      [] task.status = "Running" -> [err |-> "TaskAlreadyRunning", task |-> task]
      [] OTHER -> [err |-> "TaskCompleted", task |-> task]

\* Mutant of complete: a Running task is marked Completed without folding
\* the elapsed time of its session into accumulated_duration.
complete_without_fold(task, t) ==
    CASE task.status \in {"Running", "Paused"} ->
           [err |-> "Ok",
            task |-> [task EXCEPT !.status = "Completed", !.started_at = None]]
      [] OTHER -> [err |-> "TaskCompleted", task |-> task]

complete(task, t) ==
    CASE task.status = "Running" ->
           LET p == pause(task, t)
           IN IF p.err # "Ok" THEN [err |-> p.err, task |-> task]
              ELSE [err |-> "Ok", task |-> [p.task EXCEPT !.status = "Completed"]]
      [] task.status = "Paused" ->
           [err |-> "Ok", task |-> [task EXCEPT !.status = "Completed"]]
      [] OTHER -> [err |-> "TaskCompleted", task |-> task]

\* Mutant of total_duration: the operands of the subtraction are swapped.
total_duration_reversed(task, t) ==
    IF task.status = "Running" /\ task.started_at # None
    THEN LET e == elapsed_since(t, task.started_at)
         IN task.accumulated_duration + (IF e.ok THEN e.d ELSE 0)
    ELSE task.accumulated_duration

\* Mutant of total_duration: the session in progress is left out.
total_duration_without_session(task, t) == task.accumulated_duration

total_duration(task, t) ==
    IF task.status = "Running" /\ task.started_at # None
    THEN LET e == elapsed_since(task.started_at, t)
         IN task.accumulated_duration + (IF e.ok THEN e.d ELSE 0)
    ELSE task.accumulated_duration

\* ------------------------------------------------------------ TaskManager
Manager(ts, a) == [tasks |-> ts, active_task_index |-> a]

TaskManager_new == Manager(<<>>, None)

\* What a call returns and the manager it leaves.  msg is the phrase of
\* the error message that tells the messages apart and args the values
\* formatted into it.
Result(e, msg, m, ret) ==
    [err |-> e, msg |-> msg, args |-> <<>>, m |-> m, ret |-> ret]

\* Err(TaskError::InvalidState { message }) with the message built by
\* format! from the values args.
InvalidState(msg, args, m) ==
    [err |-> "InvalidState", msg |-> msg, args |-> args, m |-> m, ret |-> None]

\* self.tasks[index] panics when index is out of bounds.
InBounds(m, index) == index >= 0 /\ index < Len(m.tasks)

\* Mutant of start_task: the running task is not paused.
start_task_no_pause(m, id, label, t) ==
    LET pushed == Append(m.tasks, new(id, label, t))
        task_index == Len(pushed) - 1
    IN Result("Ok", "", Manager(pushed, task_index), task_index)

start_task(m, id, label, t) ==
    LET a == m.active_task_index
        indexed == a # None
    IN IF indexed /\ ~InBounds(m, a) THEN Result("Panic", "", m, None)
       ELSE LET mustPause == indexed /\ is_running(m.tasks[a + 1])
                p == IF mustPause THEN pause(m.tasks[a + 1], t)
                     ELSE [err |-> "Ok", task |-> new(0, "", 0)]
            IN IF mustPause /\ p.err # "Ok" THEN Result(p.err, "", m, None)
               ELSE LET paused == IF mustPause
                                  THEN [m.tasks EXCEPT ![a + 1] = p.task]
                                  ELSE m.tasks
                        pushed == Append(paused, new(id, label, t))
                        task_index == Len(pushed) - 1
                    IN Result("Ok", "", Manager(pushed, task_index), task_index)

\* Mutant of pause_current_task: without an active task the call does
\* nothing and succeeds.
pause_current_task_silent(m, t) ==
    LET a == m.active_task_index
    IN IF a = None THEN Result("Ok", "", m, None)
       ELSE IF ~InBounds(m, a) THEN Result("Panic", "", m, None)
       ELSE LET p == pause(m.tasks[a + 1], t)
            IN IF p.err # "Ok" THEN Result(p.err, "", m, None)
               ELSE Result("Ok", "",
                           Manager([m.tasks EXCEPT ![a + 1] = p.task], a), None)

pause_current_task(m, t) ==
    LET a == m.active_task_index
    IN IF a = None THEN Result("NoActiveTask", "", m, None)
       ELSE IF ~InBounds(m, a) THEN Result("Panic", "", m, None)
       ELSE LET p == pause(m.tasks[a + 1], t)
            IN IF p.err # "Ok" THEN Result(p.err, "", m, None)
               ELSE Result("Ok", "",
                           Manager([m.tasks EXCEPT ![a + 1] = p.task], a), None)

resume_current_task(m, t) ==
    LET a == m.active_task_index
    IN IF a = None THEN Result("NoActiveTask", "", m, None)
       ELSE IF ~InBounds(m, a) THEN Result("Panic", "", m, None)
       ELSE LET p == resume(m.tasks[a + 1], t)
            IN IF p.err # "Ok" THEN Result(p.err, "", m, None)
               ELSE Result("Ok", "",
                           Manager([m.tasks EXCEPT ![a + 1] = p.task], a), None)

\* Mutant of complete_current_task: active_task_index is not cleared.
complete_current_task_keeps_active(m, t) ==
    LET a == m.active_task_index
    IN IF a = None THEN Result("NoActiveTask", "", m, None)
       ELSE IF ~InBounds(m, a) THEN Result("Panic", "", m, None)
       ELSE LET p == complete(m.tasks[a + 1], t)
            IN IF p.err # "Ok" THEN Result(p.err, "", m, None)
               ELSE Result("Ok", "",
                           Manager([m.tasks EXCEPT ![a + 1] = p.task], a), None)

complete_current_task(m, t) ==
    LET a == m.active_task_index
    IN IF a = None THEN Result("NoActiveTask", "", m, None)
       ELSE IF ~InBounds(m, a) THEN Result("Panic", "", m, None)
       ELSE LET p == complete(m.tasks[a + 1], t)
            IN IF p.err # "Ok" THEN Result(p.err, "", m, None)
               ELSE Result("Ok", "",
                           Manager([m.tasks EXCEPT ![a + 1] = p.task], None),
                           None)

\* Option<&Task>: the set holding the active task, or the empty set.
current_task(m) ==
    IF m.active_task_index = None THEN {}
    ELSE {m.tasks[m.active_task_index + 1]}

task_count(m) == Len(m.tasks)

has_running_task(m) == \E task \in current_task(m) : is_running(task)

\* Mutant of remove: Vec::swap_remove(i), the last element takes the place
\* of the removed one.
swap_remove(ts, i) ==
    [k \in 1..(Len(ts) - 1) |-> IF k = i + 1 THEN ts[Len(ts)] ELSE ts[k]]

\* Vec::remove(i), i 0-based.
remove(ts, i) == [k \in 1..(Len(ts) - 1) |-> IF k <= i THEN ts[k] ELSE ts[k + 1]]

\* usize::saturating_sub
saturating_sub(a, b) == IF a - b < 0 THEN 0 ELSE a - b

\* Mutant of delete_task: active_task_index is not adjusted after the removal.
delete_task_no_reindex(m, index) ==
    IF index = 0
    THEN Result("InvalidState", "must be greater than 0", m, None)
    ELSE IF index > Len(m.tasks)
    THEN Result("InvalidState", "out of bounds", m, None)
    ELSE LET task_index == index - 1
             a == m.active_task_index
             task == m.tasks[task_index + 1]
         IN IF a # None /\ a = task_index /\ is_running(task)
            THEN Result("InvalidState", "currently running", m, None)
            ELSE IF a # None /\ a = task_index /\ is_paused(task)
            THEN Result("InvalidState", "currently paused", m, None)
            ELSE Result("Ok", "", Manager(remove(m.tasks, task_index), a), None)

\* Mutant of delete_task: the index is taken as 0-based.
delete_task_zero_based(m, index) ==
    IF index >= Len(m.tasks)
    THEN InvalidState("out of bounds", <<index, Len(m.tasks)>>, m)
    ELSE LET a == m.active_task_index
             idx == IF a = None THEN None
                    ELSE IF index < a THEN a - 1
                    ELSE IF index = a THEN None
                    ELSE a
         IN Result("Ok", "", Manager(remove(m.tasks, index), idx), None)

\* Mutant of delete_task: active_task_index is decremented wherever the
\* removed task stood.
delete_task_always_decrement(m, index) ==
    IF index = 0
    THEN InvalidState("must be greater than 0", <<>>, m)
    ELSE IF index > Len(m.tasks)
    THEN InvalidState("out of bounds", <<index, Len(m.tasks)>>, m)
    ELSE LET task_index == index - 1
             a == m.active_task_index
             task == m.tasks[task_index + 1]
         IN IF a # None /\ a = task_index /\ is_running(task)
            THEN InvalidState("currently running", <<task.label>>, m)
            ELSE IF a # None /\ a = task_index /\ is_paused(task)
            THEN InvalidState("currently paused", <<task.label>>, m)
            ELSE LET idx == IF a = None THEN None
                            ELSE IF a = 0 THEN 0
                            ELSE a - 1
                 IN Result("Ok", "", Manager(remove(m.tasks, task_index), idx), None)

\* Mutant of delete_task: the active task is removed like any other task.
delete_task_unguarded(m, index) ==
    IF index = 0
    THEN InvalidState("must be greater than 0", <<>>, m)
    ELSE IF index > Len(m.tasks)
    THEN InvalidState("out of bounds", <<index, Len(m.tasks)>>, m)
    ELSE LET task_index == index - 1
             a == m.active_task_index
             idx == IF a = None THEN None
                    ELSE IF task_index < a THEN a - 1
                    ELSE IF task_index = a THEN None
                    ELSE a
         IN Result("Ok", "", Manager(remove(m.tasks, task_index), idx), None)

delete_task(m, index) ==
    IF index = 0
    THEN InvalidState("must be greater than 0", <<>>, m)
    ELSE IF index > Len(m.tasks)
    THEN InvalidState("out of bounds", <<index, Len(m.tasks)>>, m)
    ELSE IF Len(m.tasks) = 0
    THEN InvalidState("No tasks available to delete", <<>>, m)
    ELSE LET task_index == index - 1
             a == m.active_task_index
             task == m.tasks[task_index + 1]
         IN IF a # None /\ a = task_index /\ is_running(task)
            THEN InvalidState("currently running", <<task.label>>, m)
            ELSE IF a # None /\ a = task_index /\ is_paused(task)
            THEN InvalidState("currently paused", <<task.label>>, m)
            ELSE LET removed == remove(m.tasks, task_index)
                     idx == IF a = None THEN None
                            ELSE IF task_index < a THEN a - 1
                            ELSE IF task_index = a THEN None
                            ELSE a
                 IN Result("Ok", "", Manager(removed, idx), None)

\* Mutant of delete_completed_tasks: only Running tasks are retained.
delete_completed_tasks_keeps_running(m) ==
    IF Len(m.tasks) = 0 THEN Result("Ok", "", m, 0)
    ELSE LET completed_count ==
                 Cardinality({k \in 1..Len(m.tasks) : is_completed(m.tasks[k])})
         IN IF completed_count = 0 THEN Result("Ok", "", m, 0)
            ELSE LET retained == SelectSeq(m.tasks, LAMBDA task : is_running(task))
                     a == m.active_task_index
                     new_idx == saturating_sub(a, completed_count)
                     idx == IF a = None THEN None
                            ELSE IF new_idx >= Len(retained) THEN None
                            ELSE new_idx
                 IN Result("Ok", "", Manager(retained, idx), completed_count)

delete_completed_tasks(m) ==
    IF Len(m.tasks) = 0 THEN Result("Ok", "", m, 0)
    ELSE LET completed_count ==
                 Cardinality({k \in 1..Len(m.tasks) : is_completed(m.tasks[k])})
         IN IF completed_count = 0 THEN Result("Ok", "", m, 0)
            ELSE LET retained == SelectSeq(m.tasks, LAMBDA task : ~is_completed(task))
                     a == m.active_task_index
                     new_idx == saturating_sub(a, completed_count)
                     idx == IF a = None THEN None
                            ELSE IF new_idx >= Len(retained) THEN None
                            ELSE new_idx
                 IN Result("Ok", "", Manager(retained, idx), completed_count)

\* The labels given to rename_task: a plain one, one with blanks around
\* it, the empty one and a blank one.
RenameLabels == {"b", " b ", "", " "}

\* str::trim on the labels above.
trim(label) ==
    CASE label = " b " -> "b"
      [] label = " " -> ""
      [] OTHER -> label

\* Mutant of rename_task: the label is checked as given, not trimmed.
rename_task_untrimmed(m, index, new_label) ==
    IF index = 0
    THEN InvalidState("must be greater than 0", <<>>, m)
    ELSE IF index > Len(m.tasks)
    THEN InvalidState("out of bounds", <<index, Len(m.tasks)>>, m)
    ELSE IF new_label = ""
    THEN [err |-> "Validation", msg |-> "empty", args |-> <<>>, m |-> m,
          ret |-> None]
    ELSE Result("Ok", "",
                Manager([m.tasks EXCEPT ![index].label = new_label],
                        m.active_task_index),
                m.tasks[index].label)

\* Mutant of rename_task: a Completed task is not renamed.
rename_task_not_completed(m, index, new_label) ==
    IF index = 0
    THEN InvalidState("must be greater than 0", <<>>, m)
    ELSE IF index > Len(m.tasks)
    THEN InvalidState("out of bounds", <<index, Len(m.tasks)>>, m)
    ELSE IF trim(new_label) = ""
    THEN [err |-> "Validation", msg |-> "empty", args |-> <<>>, m |-> m,
          ret |-> None]
    ELSE IF is_completed(m.tasks[index])
    THEN Result("TaskCompleted", "", m, None)
    ELSE Result("Ok", "",
                Manager([m.tasks EXCEPT ![index].label = new_label],
                        m.active_task_index),
                m.tasks[index].label)

\* rename_task(index, new_label), index 1-based.  The method is not in the
\* source tree; this is the operation as the specification describes it:
\* the index is validated as delete_task validates it, then the label must
\* be non-empty after trimming, then the label is swapped and the previous
\* one returned.
rename_task(m, index, new_label) ==
    IF index = 0
    THEN InvalidState("must be greater than 0", <<>>, m)
    ELSE IF index > Len(m.tasks)
    THEN InvalidState("out of bounds", <<index, Len(m.tasks)>>, m)
    ELSE IF Len(m.tasks) = 0
    THEN InvalidState("No tasks available", <<>>, m)
    ELSE IF trim(new_label) = ""
    THEN [err |-> "Validation", msg |-> "empty", args |-> <<>>, m |-> m,
          ret |-> None]
    ELSE Result("Ok", "",
                Manager([m.tasks EXCEPT ![index].label = new_label],
                        m.active_task_index),
                m.tasks[index].label)

\* Insert a pair behind every pair whose created_at is not later: with
\* sort_by_created_at below this is the stable sort of slice::sort_by.
RECURSIVE insert_by_created_at(_, _)
insert_by_created_at(sorted, pair) ==
    IF sorted = <<>> THEN <<pair>>
    ELSE IF Head(sorted).task.created_at <= pair.task.created_at
    THEN <<Head(sorted)>> \o insert_by_created_at(Tail(sorted), pair)
    ELSE <<pair>> \o sorted

RECURSIVE sort_by_created_at(_)
sort_by_created_at(pairs) ==
    IF pairs = <<>> THEN <<>>
    ELSE insert_by_created_at(sort_by_created_at(SubSeq(pairs, 1, Len(pairs) - 1)),
                              pairs[Len(pairs)])

\* Mutant of cleanup_old_tasks: the list is rewritten as in the source, but
\* active_task_index keeps its old value.
cleanup_old_tasks_stale_index(m) ==
    IF Len(m.tasks) <= MAX_TASKS THEN m
    ELSE LET live == SelectSeq(m.tasks, LAMBDA task : ~is_completed(task))
             done == SelectSeq(m.tasks, LAMBDA task : is_completed(task))
             remaining_slots == saturating_sub(MAX_TASKS, Len(live))
             keep_completed == saturating_sub(Len(done), remaining_slots)
         IN Manager(live \o SubSeq(done, keep_completed + 1, Len(done)),
                    m.active_task_index)

\* Mutant of cleanup_old_tasks: the slots left for Completed tasks are not
\* reduced by the tasks already kept.
cleanup_old_tasks_full_slots(m) ==
    IF Len(m.tasks) <= MAX_TASKS THEN m
    ELSE LET a == m.active_task_index
             live == SelectSeq(m.tasks, LAMBDA task : ~is_completed(task))
             done == SelectSeq(m.tasks, LAMBDA task : is_completed(task))
             keep_completed == saturating_sub(Len(done), MAX_TASKS)
             new_tasks == live \o SubSeq(done, keep_completed + 1, Len(done))
             hits == {k \in 1..Len(new_tasks) : a # None /\ new_tasks[k] = m.tasks[a + 1]}
         IN Manager(new_tasks,
                    IF hits = {} THEN None ELSE (CHOOSE k \in hits : TRUE) - 1)

\* Mutant of cleanup_old_tasks: the Completed tasks kept are the oldest.
cleanup_old_tasks_keeps_oldest(m) ==
    IF Len(m.tasks) <= MAX_TASKS THEN m
    ELSE LET a == m.active_task_index
             live == SelectSeq(m.tasks, LAMBDA task : ~is_completed(task))
             done == SelectSeq(m.tasks, LAMBDA task : is_completed(task))
             remaining_slots == saturating_sub(MAX_TASKS, Len(live))
             kept == IF remaining_slots >= Len(done) THEN done
                     ELSE SubSeq(done, 1, remaining_slots)
             new_tasks == live \o kept
             hits == {k \in 1..Len(new_tasks) : a # None /\ new_tasks[k] = m.tasks[a + 1]}
         IN Manager(new_tasks,
                    IF hits = {} THEN None ELSE (CHOOSE k \in hits : TRUE) - 1)

\* Mutant of cleanup_old_tasks: the list is cut down without being
\* reordered: the oldest Completed tasks are dropped where they stand.
cleanup_old_tasks_in_place(m) ==
    IF Len(m.tasks) <= MAX_TASKS THEN m
    ELSE LET a == m.active_task_index
             done == SelectSeq(m.tasks, LAMBDA task : is_completed(task))
             live == SelectSeq(m.tasks, LAMBDA task : ~is_completed(task))
             remaining_slots == saturating_sub(MAX_TASKS, Len(live))
             keep_completed == saturating_sub(Len(done), remaining_slots)
             dropped == {done[k] : k \in 1..keep_completed}
             new_tasks == SelectSeq(m.tasks, LAMBDA task : task \notin dropped)
             hits == {k \in 1..Len(new_tasks) : a # None /\ new_tasks[k] = m.tasks[a + 1]}
         IN Manager(new_tasks,
                    IF hits = {} THEN None ELSE (CHOOSE k \in hits : TRUE) - 1)

\* Mutant of cleanup_old_tasks: the rewritten list is cut at MAX_TASKS.
cleanup_old_tasks_truncate(m) ==
    IF Len(m.tasks) <= MAX_TASKS THEN m
    ELSE LET a == m.active_task_index
             live == SelectSeq(m.tasks, LAMBDA task : ~is_completed(task))
             done == SelectSeq(m.tasks, LAMBDA task : is_completed(task))
             cut == SubSeq(live \o done, 1, MAX_TASKS)
             hits == {k \in 1..Len(cut) : a # None /\ cut[k] = m.tasks[a + 1]}
         IN Manager(cut, IF hits = {} THEN None ELSE (CHOOSE k \in hits : TRUE) - 1)

\* Mutant of cleanup_old_tasks: a list of exactly MAX_TASKS tasks is
\* rewritten too.
cleanup_old_tasks_below_cap(m) ==
    IF Len(m.tasks) < MAX_TASKS THEN m
    ELSE LET active_task_id == m.active_task_index
             enumerated == [k \in 1..Len(m.tasks) |->
                              [index |-> k - 1, task |-> m.tasks[k]]]
             isActive(pair) == (active_task_id # None /\ pair.index = active_task_id)
                               \/ ~is_completed(pair.task)
             active_tasks == SelectSeq(enumerated, isActive)
             completed_tasks ==
                 sort_by_created_at(SelectSeq(enumerated, LAMBDA pair : ~isActive(pair)))
             first == [k \in 1..Len(active_tasks) |-> active_tasks[k].task]
             hits == {k \in 1..Len(active_tasks) :
                        active_task_id # None
                        /\ active_tasks[k].index = active_task_id}
             new_active_index == IF hits = {} THEN None
                                 ELSE (CHOOSE k \in hits : TRUE) - 1
             remaining_slots == saturating_sub(MAX_TASKS, Len(first))
             keep_completed == saturating_sub(Len(completed_tasks), remaining_slots)
             kept == SubSeq(completed_tasks, keep_completed + 1, Len(completed_tasks))
             new_tasks == first \o [k \in 1..Len(kept) |-> kept[k].task]
         IN Manager(new_tasks, new_active_index)

cleanup_old_tasks(m) ==
    IF Len(m.tasks) <= MAX_TASKS THEN m
    ELSE LET active_task_id == m.active_task_index
             enumerated == [k \in 1..Len(m.tasks) |->
                              [index |-> k - 1, task |-> m.tasks[k]]]
             isActive(pair) == (active_task_id # None /\ pair.index = active_task_id)
                               \/ ~is_completed(pair.task)
             active_tasks == SelectSeq(enumerated, isActive)
             completed_tasks ==
                 sort_by_created_at(SelectSeq(enumerated, LAMBDA pair : ~isActive(pair)))
             first == [k \in 1..Len(active_tasks) |-> active_tasks[k].task]
             hits == {k \in 1..Len(active_tasks) :
                        active_task_id # None
                        /\ active_tasks[k].index = active_task_id}
             new_active_index == IF hits = {} THEN None
                                 ELSE (CHOOSE k \in hits : TRUE) - 1
             remaining_slots == saturating_sub(MAX_TASKS, Len(first))
             keep_completed == saturating_sub(Len(completed_tasks), remaining_slots)
             kept == SubSeq(completed_tasks, keep_completed + 1, Len(completed_tasks))
             new_tasks == first \o [k \in 1..Len(kept) |-> kept[k].task]
         IN Manager(new_tasks, new_active_index)

\* ---------------------------------------------------------------- actions
Self == Manager(tasks, active_task_index)

Range(seq) == {seq[k] : k \in 1..Len(seq)}

\* accumulated_duration grows without limit when the clock is set back and
\* a task is resumed again and again; the model stops at MaxAcc.
WithinAcc(ts) == \A k \in 1..Len(ts) : ts[k].accumulated_duration <= MaxAcc

\* The history fields after a step at clock reading t: a task that left
\* Running closes its session, a task that entered Running opens one.
Audit(ts, t) ==
    [k \in 1..Len(ts) |->
        IF ts[k].open # None /\ ts[k].status # "Running"
        THEN [ts[k] EXCEPT !.ended = @ + (t - ts[k].open), !.open = None]
        ELSE IF ts[k].open = None /\ ts[k].status = "Running"
        THEN [ts[k] EXCEPT !.open = t]
        ELSE ts[k]]

Apply(op, r) ==
    /\ single = <<>>
    /\ active_task_index' = r.m.active_task_index
    /\ WithinAcc(r.m.tasks)
    /\ tasks' = Audit(r.m.tasks, now)
    /\ last' = [op |-> op, err |-> r.err, msg |-> r.msg, args |-> r.args,
                ret |-> r.ret]
    /\ UNCHANGED <<single, store>>

\* A call that returns Ok and changes the manager.
Effective(r) == r.err = "Ok" /\ r.m # Self

\* start_task; afterwards the clock has advanced by tick.  At most maxLen
\* tasks are ever created in one behaviour.
StartTask(label, maxLen, tick) ==
    /\ nextId <= maxLen
    /\ LET r == start_task(Self, nextId, label, now)
       IN /\ Apply("start_task", r)
          /\ nextId' = IF r.err = "Ok" THEN nextId + 1 ELSE nextId
    /\ now' = now + tick

PauseCurrentTask ==
    /\ Apply("pause_current_task", pause_current_task(Self, now))
    /\ UNCHANGED <<now, nextId>>

ResumeCurrentTask ==
    /\ Apply("resume_current_task", resume_current_task(Self, now))
    /\ UNCHANGED <<now, nextId>>

CompleteCurrentTask ==
    /\ Apply("complete_current_task", complete_current_task(Self, now))
    /\ UNCHANGED <<now, nextId>>

DeleteTask(index) ==
    /\ Apply("delete_task", delete_task(Self, index))
    /\ UNCHANGED <<now, nextId>>

DeleteCompletedTasks ==
    /\ Apply("delete_completed_tasks", delete_completed_tasks(Self))
    /\ UNCHANGED <<now, nextId>>

RenameTask(index, new_label) ==
    /\ Apply("rename_task", rename_task(Self, index, new_label))
    /\ UNCHANGED <<now, nextId>>

\* The retention pass that load_or_create runs on the manager it loaded.
CleanupOldTasks ==
    /\ Apply("cleanup_old_tasks", Result("Ok", "", cleanup_old_tasks(Self), None))
    /\ UNCHANGED <<now, nextId>>

\* A Task used on its own, as task_tests.rs does: Task::new, then pause,
\* resume and complete called on it directly.  A behaviour uses either the
\* manager or a Task on its own.
ApplyTask(op, r) ==
    /\ WithinAcc(<<r.task>>)
    /\ single' = Audit(<<r.task>>, now)
    /\ last' = [op |-> op, err |-> r.err, msg |-> "", args |-> <<>>, ret |-> None]
    /\ UNCHANGED <<tasks, active_task_index, now, nextId, store>>

TaskNew(label) ==
    /\ single = <<>> /\ tasks = <<>> /\ nextId = 1
    /\ ApplyTask("new", [err |-> "Ok", task |-> new(0, label, now)])

TaskPause == single # <<>> /\ ApplyTask("pause", pause(single[1], now))

TaskResume == single # <<>> /\ ApplyTask("resume", resume(single[1], now))

TaskComplete == single # <<>> /\ ApplyTask("complete", complete(single[1], now))

\* Utc::now() is the wall clock: it advances, and it can be set back.
Tick ==
    /\ now < MaxTime
    /\ now' = now + 1
    /\ UNCHANGED <<tasks, active_task_index, single, nextId, last, store>>

ClockBack ==
    /\ now > 0
    /\ now' = now - 1
    /\ UNCHANGED <<tasks, active_task_index, single, nextId, last, store>>

Init ==
    /\ tasks = TaskManager_new.tasks
    /\ active_task_index = TaskManager_new.active_task_index
    /\ single = <<>>
    /\ now = 0
    /\ nextId = 1
    /\ last = [op |-> "TaskManager::new", err |-> "Ok", msg |-> "", args |-> <<>>,
               ret |-> None]
    /\ fs = [target |-> 0, tmp |-> 0, data |-> <<>>]
    /\ procs = <<>>
    /\ seen = <<>>
    /\ hist = <<>>

Next ==
    \/ StartTask("a", MaxLen, 0)
    \/ PauseCurrentTask
    \/ ResumeCurrentTask
    \/ CompleteCurrentTask
    \/ \E index \in 0..(MaxLen + 1) : DeleteTask(index)
    \/ DeleteCompletedTasks
    \/ CleanupOldTasks
    \/ TaskNew("a")
    \/ TaskPause
    \/ TaskResume
    \/ TaskComplete
    \/ Tick
    \/ ClockBack

Spec == Init /\ [][Next]_vars

NextRet ==
    \/ StartTask("a", MaxLenRet, 1)
    \/ Effective(pause_current_task(Self, now)) /\ PauseCurrentTask
    \/ Effective(resume_current_task(Self, now)) /\ ResumeCurrentTask
    \/ Effective(complete_current_task(Self, now)) /\ CompleteCurrentTask
    \/ \E index \in 1..MaxLenRet :
          /\ Len(tasks) >= MaxLenRet - 1
          /\ Effective(delete_task(Self, index))
          /\ DeleteTask(index)
    \/ Effective(delete_completed_tasks(Self)) /\ DeleteCompletedTasks
    \/ Len(tasks) > MAX_TASKS /\ CleanupOldTasks

SpecRet == Init /\ [][NextRet]_vars

NextDel ==
    \/ StartTask("a", MaxLenDel, 1)
    \/ PauseCurrentTask
    \/ ResumeCurrentTask
    \/ CompleteCurrentTask
    \/ \E index \in 0..(MaxLenDel + 1) : DeleteTask(index)
    \/ DeleteCompletedTasks
    \/ CleanupOldTasks

SpecDel == Init /\ [][NextDel]_vars

NextRen ==
    \/ StartTask("a", MaxLenRen, 1)
    \/ PauseCurrentTask
    \/ ResumeCurrentTask
    \/ CompleteCurrentTask
    \/ \E index \in 0..(MaxLenRen + 1) : \E new_label \in RenameLabels :
          RenameTask(index, new_label)

SpecRen == Init /\ [][NextRen]_vars

\* ------------------------------------------------------------------ store
\* The persisted store is two paths of one directory, the file
\* get_config_path names and its sibling path.with_extension("tmp"), and
\* the files they name.  A file is a text, a sequence of tokens; a path
\* holds the number of its file in fs.data, or NoFile.
NoFile == 0

Procs == {"A", "B"}

Terminal == {"idle", "done", "exit1", "interrupted"}

Token(t, task, idx) == [t |-> t, task |-> task, idx |-> idx]

\* Mutant of to_json: started_at marked #[serde(skip)].
to_json_skip_started_at(task) ==
    [label |-> task.label, status |-> task.status,
     created_at |-> task.created_at,
     started_at |-> <<>>,
     accumulated_duration |-> [secs |-> task.accumulated_duration, nanos |-> 0],
     audit |-> <<task.id, task.ended, task.open>>]

\* #[derive(Serialize)] of Task: an Option is null or the value, a Duration
\* is its seconds and nanoseconds.
to_json(task) ==
    [label |-> task.label, status |-> task.status,
     created_at |-> task.created_at,
     started_at |-> IF task.started_at = None THEN <<>> ELSE <<task.started_at>>,
     accumulated_duration |-> [secs |-> task.accumulated_duration, nanos |-> 0],
     audit |-> <<task.id, task.ended, task.open>>]

\* #[derive(Deserialize)] of Task.
from_json(json) ==
    [label |-> json.label, status |-> json.status,
     created_at |-> json.created_at,
     started_at |-> IF json.started_at = <<>> THEN None ELSE json.started_at[1],
     accumulated_duration |-> json.accumulated_duration.secs,
     id |-> json.audit[1], ended |-> json.audit[2], open |-> json.audit[3]]

\* serde_json::to_string_pretty of a TaskManager: the opening brace, the
\* tasks in list order, active_task_index, the closing brace.
to_string_pretty(m) ==
    <<Token("{", <<>>, <<>>)>>
    \o [k \in 1..Len(m.tasks) |-> Token("task", <<to_json(m.tasks[k])>>, <<>>)]
    \o <<Token("active_task_index", <<>>,
               IF m.active_task_index = None THEN <<>> ELSE <<m.active_task_index>>),
         Token("}", <<>>, <<>>)>>

\* What serde_json accepts as a TaskManager: a whole document and no more.
well_formed(text) ==
    /\ Len(text) >= 3
    /\ text[1].t = "{"
    /\ text[Len(text)].t = "}"
    /\ text[Len(text) - 1].t = "active_task_index"
    /\ \A k \in 2..(Len(text) - 2) : text[k].t = "task"

\* serde_json::from_str::<TaskManager>.
from_str(text) ==
    IF well_formed(text)
    THEN [err |-> "Ok",
          m |-> Manager([k \in 1..(Len(text) - 3) |-> from_json(text[k + 1].task[1])],
                        IF text[Len(text) - 1].idx = <<>> THEN None
                        ELSE text[Len(text) - 1].idx[1])]
    ELSE [err |-> "Json", m |-> TaskManager_new]

\* The text at the path of the store: <<>> when there is no file, else
\* <<text>>.
read(f, ino) == IF ino = NoFile THEN <<>> ELSE <<f.data[ino]>>

load_from_file(f) ==
    IF f.target = NoFile THEN [err |-> "Io", m |-> TaskManager_new]
    ELSE from_str(f.data[f.target])

\* Mutant of load_or_create: the error of load_from_file is passed on with ?.
load_or_create_propagates(f) ==
    LET loaded == load_from_file(f)
    IN IF loaded.err = "Ok" THEN [err |-> "Ok", m |-> cleanup_old_tasks(loaded.m)]
       ELSE loaded

\* Mutant of load_or_create: the manager is returned as it was stored.
load_or_create_no_cleanup(f) ==
    LET loaded == load_from_file(f)
    IN [err |-> "Ok", m |-> loaded.m]

load_or_create(f) ==
    LET loaded == load_from_file(f)
    IN IF loaded.err = "Ok" THEN [err |-> "Ok", m |-> cleanup_old_tasks(loaded.m)]
       ELSE [err |-> "Ok", m |-> TaskManager_new]

\* get_config_path: the path of the store.
get_config_path == "target"

\* Mutant of with_extension: the path is returned as it is, so that save
\* writes the store itself.
with_extension_same(path, extension) == path

\* PathBuf::with_extension on the path of the store: the sibling path.
with_extension(path, extension) == extension

\* File::create(temp_path): a new empty file, or the file already at the
\* path cut to length zero.  ret is the file the descriptor is open on.
create(f) ==
    LET temp_path == with_extension(get_config_path, "tmp")
    IN IF f[temp_path] = NoFile
       THEN [f |-> [f EXCEPT ![temp_path] = Len(f.data) + 1, !.data = Append(@, <<>>)],
             ret |-> Len(f.data) + 1]
       ELSE [f |-> [f EXCEPT !.data[f[temp_path]] = <<>>], ret |-> f[temp_path]]

\* write at offset 0 of a freshly opened descriptor: what the file held
\* behind the written text stays.
write_all(f, fd, text) ==
    [f EXCEPT !.data[fd] = text \o SubSeq(@, Len(text) + 1, Len(@))]

\* fs::rename(temp_path, path): one step; fails when temp_path names no file.
rename(f) ==
    LET temp_path == with_extension(get_config_path, "tmp")
    IN IF f[temp_path] = NoFile THEN [err |-> "Io", f |-> f]
       ELSE IF temp_path = get_config_path THEN [err |-> "Ok", f |-> f]
       ELSE [err |-> "Ok", f |-> [f EXCEPT ![get_config_path] = f[temp_path],
                                           ![temp_path] = NoFile]]

Commands == {"start", "pause", "resume", "status", "list", "complete"}

\* handle_command of main.rs.
handle_command(m, command, id, t) ==
    CASE command = "start" -> start_task(m, id, "a", t)
      [] command = "pause" -> pause_current_task(m, t)
      [] command = "resume" -> resume_current_task(m, t)
      [] command \in {"status", "list"} -> Result("Ok", "", m, None)
      [] command = "complete" ->
            IF current_task(m) = {} THEN Result("NoActiveTask", "", m, None)
            ELSE complete_current_task(m, t)

\* Mutant of after_command: main saves whatever handle_command returned.
after_command_always_saves(r) == "create"

\* main after handle_command: Ok goes on to save, Err to process::exit(1).
after_command(r) == IF r.err = "Ok" THEN "create" ELSE "exit1"

Proc(pc, m, fd, err) == [pc |-> pc, m |-> m, fd |-> fd, err |-> err]

\* One invocation up to its save: load_or_create, then handle_command on the
\* manager loaded.  At most maxInv invocations run in one behaviour.
Begin(p, command, maxInv) ==
    /\ procs[p].pc \in Terminal
    /\ hist.inv < maxInv
    /\ LET r == handle_command(load_or_create(fs).m, command, nextId, now)
       IN /\ procs' = [procs EXCEPT ![p] =
                          Proc(after_command(r),
                               Manager(Audit(r.m.tasks, now), r.m.active_task_index),
                               NoFile, r.err)]
          /\ nextId' = IF command = "start" /\ r.err = "Ok" THEN nextId + 1 ELSE nextId
    /\ hist' = [hist EXCEPT !.inv = @ + 1, !.attempts[p] = 0,
                            !.command[p] = command,
                            !.before[p] = read(fs, fs.target)]
    /\ UNCHANGED <<tasks, active_task_index, single, now, last, fs, seen>>

UnchangedManager == UNCHANGED <<tasks, active_task_index, single, now, nextId, last>>

\* save, step by step.
CreateTemp(p) ==
    /\ procs[p].pc = "create"
    /\ LET c == create(fs)
       IN /\ fs' = c.f
          /\ procs' = [procs EXCEPT ![p].pc = "write", ![p].fd = c.ret]
    /\ hist' = [hist EXCEPT !.attempts[p] = @ + 1]
    /\ UNCHANGED seen
    /\ UnchangedManager

WriteAll(p) ==
    /\ procs[p].pc = "write"
    /\ fs' = write_all(fs, procs[p].fd, to_string_pretty(procs[p].m))
    /\ procs' = [procs EXCEPT ![p].pc = "sync"]
    /\ hist' = [hist EXCEPT !.written = @ \cup {to_string_pretty(procs[p].m)}]
    /\ UNCHANGED seen
    /\ UnchangedManager

SyncAll(p) ==
    /\ procs[p].pc = "sync"
    /\ procs' = [procs EXCEPT ![p].pc = "rename"]
    /\ UNCHANGED <<fs, seen, hist>>
    /\ UnchangedManager

Rename(p) ==
    /\ procs[p].pc = "rename"
    /\ LET r == rename(fs)
       IN /\ fs' = r.f
          /\ procs' = [procs EXCEPT ![p].pc = "done", ![p].fd = NoFile,
                                    ![p].err = r.err]
          /\ hist' = [hist EXCEPT !.finished = <<procs[p].m>>,
                                  !.committed = IF r.err = "Ok"
                                                THEN <<to_string_pretty(procs[p].m)>>
                                                ELSE @]
    /\ UNCHANGED seen
    /\ UnchangedManager

\* The invocation is killed, or the step it is at returns an I/O error and
\* save gives up, before the step has done anything.
Interrupt(p) ==
    /\ procs[p].pc \in {"create", "write", "sync", "rename"}
    /\ procs' = [procs EXCEPT ![p].pc = "interrupted", ![p].fd = NoFile]
    /\ UNCHANGED <<fs, seen, hist>>
    /\ UnchangedManager

\* The invocation is killed inside write_all, n tokens written.
InterruptWrite(p) ==
    /\ procs[p].pc = "write"
    /\ \E n \in {1, Len(to_string_pretty(procs[p].m)) - 1} :
          fs' = write_all(fs, procs[p].fd, SubSeq(to_string_pretty(procs[p].m), 1, n))
    /\ procs' = [procs EXCEPT ![p].pc = "interrupted", ![p].fd = NoFile]
    /\ UNCHANGED <<seen, hist>>
    /\ UnchangedManager

\* Another process reads the store: fs::read_to_string(path).
ReaderLoad ==
    /\ seen' = <<read(fs, fs.target)>>
    /\ UNCHANGED <<fs, procs, hist>>
    /\ UnchangedManager

\* A manager that holds n Completed tasks, made by n rounds of start_task
\* and complete_current_task, the clock advancing by one in each.
RECURSIVE Seed(_)
Seed(n) ==
    IF n = 0 THEN TaskManager_new
    ELSE LET s == start_task(Seed(n - 1), n, "a", n - 1).m
             c == complete_current_task(Manager(Audit(s.tasks, n - 1), s.active_task_index), n).m
         IN Manager(Audit(c.tasks, n), c.active_task_index)

\* The stores a behaviour starts from: no file yet, the file an earlier
\* invocation saved with the retention cap reached, and that file cut off
\* behind its first task.
InitialStores ==
    {[target |-> NoFile, tmp |-> NoFile, data |-> <<>>],
     [target |-> 1, tmp |-> NoFile, data |-> <<to_string_pretty(Seed(MAX_TASKS))>>],
     [target |-> 1, tmp |-> NoFile,
      data |-> <<SubSeq(to_string_pretty(Seed(MAX_TASKS)), 1, 2)>>]}

InitStore ==
    /\ tasks = TaskManager_new.tasks
    /\ active_task_index = TaskManager_new.active_task_index
    /\ single = <<>>
    /\ now = MAX_TASKS
    /\ nextId = MAX_TASKS + 1
    /\ last = [op |-> "TaskManager::new", err |-> "Ok", msg |-> "", args |-> <<>>,
               ret |-> None]
    /\ fs \in InitialStores
    /\ procs = [p \in Procs |-> Proc("idle", TaskManager_new, NoFile, "Ok")]
    /\ seen = <<>>
    /\ hist = [inv |-> 0, attempts |-> [p \in Procs |-> 0],
               command |-> [p \in Procs |-> ""],
               before |-> [p \in Procs |-> <<>>], written |-> {}, finished |-> <<>>,
               committed |-> read(fs, fs.target), initial |-> read(fs, fs.target)]

\* SpecSave: invocations one after the other, each of them interrupted at
\* any step of its save or not at all.
NextSave ==
    \/ \E command \in Commands : Begin("A", command, MaxInv)
    \/ CreateTemp("A")
    \/ WriteAll("A")
    \/ SyncAll("A")
    \/ Rename("A")
    \/ Interrupt("A")
    \/ InterruptWrite("A")

SpecSave == InitStore /\ [][NextSave]_vars

\* SpecRace: the invocations of two processes with their steps interleaved,
\* and a reader.
NextRace ==
    \/ \E p \in Procs : \E command \in Commands : Begin(p, command, MaxRaceInv)
    \/ \E p \in Procs : CreateTemp(p)
    \/ \E p \in Procs : WriteAll(p)
    \/ \E p \in Procs : SyncAll(p)
    \/ \E p \in Procs : Rename(p)
    \/ ReaderLoad

SpecRace == InitStore /\ [][NextRace]_vars

\* ------------------------------------------------------------ cleanup inputs
\* The managers cleanup_old_tasks is applied to in SpecClean.  Each is what
\* a run of start_task calls leaves: a task is Completed if
\* complete_current_task was called while it was active and Paused if the
\* next start_task displaced it; the task started last is Running, Paused
\* or Completed; created_at is what the clock read at each start_task, a
\* clock that advances, is set back before every call, or stands still.
ClockPatterns == {"advancing", "set back", "standing"}

ClockAt(pattern, k, n) ==
    CASE pattern = "advancing" -> k - 1
      [] pattern = "set back" -> n - k
      [] OTHER -> 0

StartedTask(k, status, t) ==
    [new(k, "a", t) EXCEPT
        !.status = status,
        !.started_at = IF status = "Running" THEN t ELSE None,
        !.open = IF status = "Running" THEN t ELSE None]

CleanupInputs ==
    {Manager([k \in 1..n |->
                StartedTask(k, IF k = n THEN newest ELSE earlier[k],
                            ClockAt(pattern, k, n))],
             IF newest = "Completed" THEN None ELSE n - 1) :
        n \in MAX_TASKS..MaxLenClean,
        earlier \in [1..MaxLenClean -> {"Paused", "Completed"}],
        newest \in TaskStatus,
        pattern \in ClockPatterns}

InitClean ==
    /\ \E m \in CleanupInputs :
          /\ tasks = m.tasks
          /\ active_task_index = m.active_task_index
    /\ single = <<>>
    /\ now = MaxLenClean
    /\ nextId = MaxLenClean + 1
    /\ last = [op |-> "TaskManager::new", err |-> "Ok", msg |-> "", args |-> <<>>,
               ret |-> None]
    /\ fs = [target |-> 0, tmp |-> 0, data |-> <<>>]
    /\ procs = <<>>
    /\ seen = <<>>
    /\ hist = <<>>

NextClean == CleanupOldTasks

SpecClean == InitClean /\ [][NextClean]_vars

\* ------------------------------------------------------------- vocabulary
AllTasks == Range(tasks) \cup Range(single)

\* 0-based positions of the manager's tasks that are Running or Paused.
LiveIdx == {k - 1 : k \in {j \in 1..Len(tasks) : tasks[j].status \in {"Running", "Paused"}}}

RunningIdx == {k - 1 : k \in {j \in 1..Len(tasks) : tasks[j].status = "Running"}}

HasCompleted == \E task \in Range(tasks) : task.status = "Completed"

\* ---------------------------------------------------------------- C1
\* C1 as stated: at most one task is Running or Paused, that task is the one
\* active_task_index designates, and active_task_index is None exactly when
\* no task is Running or Paused.
C1_OneLiveTask ==
    /\ Cardinality(LiveIdx) <= 1
    /\ \A i \in LiveIdx : active_task_index = i
    /\ (active_task_index = None) <=> (LiveIdx = {})

\* C1 as amended: active_task_index designates at most one task, and that
\* task is Running or Paused; when no task is Running or Paused it is None.
\* (A task displaced by a later start_task stays in the list, Paused, so
\* several tasks can be Running or Paused.)
C1_ActiveIsLive ==
    /\ active_task_index # None => active_task_index \in LiveIdx
    /\ LiveIdx = {} => active_task_index = None

\* Two tasks are Running or Paused, one of them the active one, after a
\* start_task that displaced the other.
C1_Witness ==
    /\ last.op = "start_task" /\ last.err = "Ok"
    /\ Cardinality(LiveIdx) >= 2
    /\ active_task_index \in LiveIdx

\* ---------------------------------------------------------------- C2
\* C2: at most one task is Running, and a Running task is the task that
\* active_task_index designates.
C2_SingleFocus ==
    /\ Cardinality(RunningIdx) <= 1
    /\ \A i \in RunningIdx : active_task_index = i

\* ---------------------------------------------------------------- C3
\* C3: if active_task_index = Some(i) then i < len(tasks) and tasks[i] is
\* Running or Paused, never Completed, so current_task() stays in bounds.
C3_ActiveInBounds ==
    active_task_index # None =>
        /\ InBounds(Self, active_task_index)
        /\ ~is_completed(tasks[active_task_index + 1])
        /\ is_running(tasks[active_task_index + 1])
           \/ is_paused(tasks[active_task_index + 1])

\* Retention cleanup has just rewritten a list that has an active task and
\* Completed tasks.
C3_Witness ==
    /\ last.op = "cleanup_old_tasks"
    /\ active_task_index # None
    /\ HasCompleted

\* ---------------------------------------------------------------- C4
\* C4: for every task, after every call (successful or failed), started_at
\* is present if and only if the status is Running.
C4_StartedIffRunning ==
    \A task \in AllTasks : (task.started_at # None) <=> (task.status = "Running")

\* A call has just failed on a manager that holds a Paused and a Running task.
C4_Witness ==
    /\ last.err \notin {"Ok"}
    /\ \E task \in AllTasks : task.status = "Paused" /\ task.started_at = None
    /\ \E task \in AllTasks : task.status = "Running" /\ task.started_at # None

\* ---------------------------------------------------------------- C5
StatusEdge(from, to, op) ==
    \/ from = to
    \/ from = "Running" /\ to = "Paused"
       /\ op \in {"pause", "pause_current_task", "start_task"}
    \/ from = "Paused" /\ to = "Running"
       /\ op \in {"resume", "resume_current_task"}
    \/ from \in {"Running", "Paused"} /\ to = "Completed"
       /\ op \in {"complete", "complete_current_task"}

\* C5: the status of a task changes only along Running->Paused (pause),
\* Paused->Running (resume), Running->Completed and Paused->Completed
\* (complete); a Completed task stays Completed.
C5_StatusEdges ==
    [][\A x \in AllTasks : \A y \in AllTasks' :
          x.id = y.id =>
              /\ StatusEdge(x.status, y.status, last'.op)
              /\ x.status = "Completed" => y.status = "Completed"]_vars

\* resume has just been refused on a Completed task.
C5_Witness ==
    /\ single # <<>>
    /\ single[1].status = "Completed"
    /\ last.op = "resume" /\ last.err = "TaskCompleted"

\* ---------------------------------------------------------------- C6
\* C6 as stated: a later total_duration() read of a task that stays Running
\* is never smaller than an earlier one, and reads of a task that stays
\* Paused or Completed are all equal.
C6_Monotonic ==
    [][\A x \in AllTasks : \A y \in AllTasks' :
          x.id = y.id =>
              /\ (x.status = "Running" /\ y.status = "Running")
                 => total_duration(y, now') >= total_duration(x, now)
              /\ (x.status # "Running" /\ y.status # "Running")
                 => total_duration(y, now') = total_duration(x, now)]_vars

\* C6 as amended: the same, for reads between which the clock was not set
\* back (total_duration reads the wall clock).
C6_MonotonicClock ==
    [][\A x \in AllTasks : \A y \in AllTasks' :
          x.id = y.id =>
              /\ (x.status = "Running" /\ y.status = "Running" /\ now' >= now)
                 => total_duration(y, now') >= total_duration(x, now)
              /\ (x.status # "Running" /\ y.status # "Running")
                 => total_duration(y, now') = total_duration(x, now)]_vars

\* A task is in its second session, and the clock has advanced during it.
C6_Witness ==
    \E task \in AllTasks :
        /\ task.status = "Running"
        /\ task.accumulated_duration > 0
        /\ total_duration(task, now) > task.accumulated_duration

\* ---------------------------------------------------------------- C7
\* C7: accumulated_duration is the sum, over the sessions of the task that
\* have ended, of end time minus start time; the session in progress is not
\* in it, and it is 0 for a task that never left Running.
C7_SumOfSessions ==
    \A task \in AllTasks :
        /\ task.accumulated_duration = task.ended
        /\ (task.status = "Running") <=> (task.open # None)

\* A task with ended sessions of non-zero length is Running again, and its
\* open session has lasted a while.
C7_Witness ==
    \E task \in AllTasks :
        /\ task.status = "Running"
        /\ task.ended > 0
        /\ now > task.open

\* ---------------------------------------------------------------- C8
\* The effect C8 describes, of a start_task step on a manager whose active
\* task sits at 0-based position a.
C8_Effect(a) ==
    /\ last'.err = "Ok"
    /\ Len(tasks') = Len(tasks) + 1
    /\ tasks'[a + 1].status = "Paused"
    /\ tasks'[a + 1].accumulated_duration
         = tasks[a + 1].accumulated_duration + (now - tasks[a + 1].started_at)
    /\ tasks'[a + 1].id = tasks[a + 1].id
    /\ tasks'[Len(tasks')].status = "Running"
    /\ tasks'[Len(tasks')].accumulated_duration = 0
    /\ tasks'[Len(tasks')].id \notin {task.id : task \in Range(tasks)}
    /\ active_task_index' = Len(tasks') - 1
    /\ last'.ret = Len(tasks') - 1
    /\ \A k \in 1..Len(tasks) : k # a + 1 => tasks'[k] = tasks[k]

C9_CompleteClearsActive ==
    [][(last'.op = "complete_current_task" /\ last'.err = "Ok"
        /\ CompleteCurrentTask) =>
          /\ active_task_index # None
          /\ tasks[active_task_index + 1].status \in {"Running", "Paused"}
          /\ active_task_index' = None
          /\ current_task(Self') = {}
          /\ Len(tasks') = Len(tasks)
          /\ tasks'[active_task_index + 1].status = "Completed"
          /\ tasks'[active_task_index + 1].id = tasks[active_task_index + 1].id
          /\ pause_current_task(Self', now').err = "NoActiveTask"
          /\ resume_current_task(Self', now').err = "NoActiveTask"
          /\ complete_current_task(Self', now').err = "NoActiveTask"]_vars

\* complete_current_task has just succeeded.
C9_Witness ==
    /\ last.op = "complete_current_task" /\ last.err = "Ok"
    /\ active_task_index = None
    /\ HasCompleted

\* ---------------------------------------------------------------- C10
\* A call on a Task used on its own is refused with error e, Task unchanged.
RefusedTask(e) == last'.err = e /\ single' = single

\* A call on the manager is refused with error e, manager unchanged.
RefusedManager(e) ==
    last'.err = e /\ tasks' = tasks /\ active_task_index' = active_task_index

ActiveStatus == tasks[active_task_index + 1].status

\* C10: pause on Paused fails with TaskAlreadyPaused, pause on Completed with
\* TaskCompleted, resume on Running with TaskAlreadyRunning, resume on
\* Completed with TaskCompleted, complete on Completed with TaskCompleted;
\* the task is unchanged.  pause_current_task and resume_current_task
\* return the same errors and leave the manager unchanged.
C10_IllegalTransitions ==
    [][/\ (single # <<>> /\ single[1].status = "Paused" /\ TaskPause)
             => RefusedTask("TaskAlreadyPaused")
       /\ (single # <<>> /\ single[1].status = "Completed" /\ TaskPause)
             => RefusedTask("TaskCompleted")
       /\ (single # <<>> /\ single[1].status = "Running" /\ TaskResume)
             => RefusedTask("TaskAlreadyRunning")
       /\ (single # <<>> /\ single[1].status = "Completed" /\ TaskResume)
             => RefusedTask("TaskCompleted")
       /\ (single # <<>> /\ single[1].status = "Completed" /\ TaskComplete)
             => RefusedTask("TaskCompleted")
       /\ (active_task_index # None /\ ActiveStatus = "Paused" /\ PauseCurrentTask)
             => RefusedManager("TaskAlreadyPaused")
       /\ (active_task_index # None /\ ActiveStatus = "Completed" /\ PauseCurrentTask)
             => RefusedManager("TaskCompleted")
       /\ (active_task_index # None /\ ActiveStatus = "Running" /\ ResumeCurrentTask)
             => RefusedManager("TaskAlreadyRunning")
       /\ (active_task_index # None /\ ActiveStatus = "Completed" /\ ResumeCurrentTask)
             => RefusedManager("TaskCompleted")]_vars

\* pause has just been refused on a Completed task.
C10_Witness ==
    /\ single # <<>>
    /\ single[1].status = "Completed"
    /\ last.op = "pause" /\ last.err = "TaskCompleted"

\* ---------------------------------------------------------------- C11
\* C11: pause_current_task, resume_current_task and complete_current_task
\* fail with NoActiveTask exactly when active_task_index is None, and then
\* leave tasks and active_task_index unchanged.
C11_NoActiveTask ==
    [][(/\ last'.op \in {"pause_current_task", "resume_current_task",
                         "complete_current_task"}
        /\ \/ PauseCurrentTask
           \/ ResumeCurrentTask
           \/ CompleteCurrentTask) =>
          /\ (last'.err = "NoActiveTask") <=> (active_task_index = None)
          /\ active_task_index = None =>
                /\ tasks' = tasks
                /\ active_task_index' = None]_vars

\* pause_current_task has just failed with NoActiveTask on a manager that
\* holds a Paused task (displaced) and a Completed one.
C11_Witness ==
    /\ last.op = "pause_current_task" /\ last.err = "NoActiveTask"
    /\ active_task_index = None
    /\ \E task \in Range(tasks) : task.status = "Paused"
    /\ HasCompleted

\* ---------------------------------------------------------------- C12
\* C12: delete_task on the index of the active task is refused with
\* InvalidState, the message saying "currently running" when the task is
\* Running and "currently paused" when it is Paused; the task list and
\* active_task_index are unchanged.
C12_DeleteActiveRefused ==
    [][(/\ last'.op = "delete_task"
        /\ active_task_index # None
        /\ DeleteTask(active_task_index + 1)) =>
          /\ RefusedManager("InvalidState")
          /\ ActiveStatus = "Running" => last'.msg = "currently running"
          /\ ActiveStatus = "Paused" => last'.msg = "currently paused"
          /\ last'.args = <<tasks[active_task_index + 1].label>>]_vars

\* delete_task has just been refused on the active, Paused task of a list
\* of several tasks.
C12_Witness ==
    /\ last.op = "delete_task" /\ last.err = "InvalidState"
    /\ last.msg = "currently paused"
    /\ active_task_index # None
    /\ tasks[active_task_index + 1].status = "Paused"
    /\ Len(tasks) >= 2

\* ---------------------------------------------------------------- C13
\* C13: every task removed by a successful delete_task has status
\* Completed; delete_task never removes a Running or Paused task.
C13_DeleteOnlyCompleted ==
    [][\A k \in 1..Len(tasks) :
          (/\ last'.op = "delete_task" /\ last'.err = "Ok"
           /\ DeleteTask(k)) => tasks[k].status = "Completed"]_vars

\* ---------------------------------------------------------------- C14
\* C14 (delete_task): called with an index >= 1 on a manager that holds no
\* tasks, delete_task fails with the "No tasks available to delete"
\* message, not with the out-of-bounds message.
C14_EmptyListMessage ==
    [][\A k \in 1..(MaxLenDel + 1) :
          (/\ last'.op = "delete_task"
           /\ tasks = <<>>
           /\ DeleteTask(k)) =>
              /\ last'.err = "InvalidState"
              /\ last'.msg = "No tasks available to delete"]_vars

\* ---------------------------------------------------------------- C15
\* C15: delete_task with index 0 fails with InvalidState "must be greater
\* than 0"; with an index greater than the number of tasks of a non-empty
\* list it fails with InvalidState "out of bounds", the message naming the
\* index and the valid range 1..len; no task is removed and
\* active_task_index is unchanged.
C15_IndexErrors ==
    [][/\ (last'.op = "delete_task" /\ DeleteTask(0)) =>
             /\ RefusedManager("InvalidState")
             /\ last'.msg = "must be greater than 0"
       /\ \A k \in 1..(MaxLenDel + 1) :
             (/\ last'.op = "delete_task"
              /\ tasks # <<>>
              /\ k > Len(tasks)
              /\ DeleteTask(k)) =>
                 /\ RefusedManager("InvalidState")
                 /\ last'.msg = "out of bounds"
                 /\ last'.args = <<k, Len(tasks)>>]_vars

\* delete_task has just been refused for an index behind the end of a list
\* of several tasks, one of them active.
C15_Witness ==
    /\ last.op = "delete_task" /\ last.err = "InvalidState"
    /\ last.msg = "out of bounds"
    /\ Len(tasks) >= 2
    /\ last.args = <<Len(tasks) + 1, Len(tasks)>>
    /\ active_task_index # None

\* ---------------------------------------------------------------- C16
\* C16: a successful delete_task(k) removes exactly the task at 1-based
\* position k and keeps the order of the others; current_task() designates
\* the same task after the call as before (active_task_index is
\* decremented when the removed position precedes it, kept when it follows).
C16_DeleteReindexes ==
    [][\A k \in 1..Len(tasks) :
          (/\ last'.op = "delete_task" /\ last'.err = "Ok"
           /\ DeleteTask(k)) =>
              /\ Len(tasks') = Len(tasks) - 1
              /\ \A j \in 1..Len(tasks') :
                    tasks'[j] = tasks[IF j < k THEN j ELSE j + 1]
              /\ current_task(Self') = current_task(Self)
              /\ active_task_index # None =>
                    active_task_index' = IF k - 1 < active_task_index
                                         THEN active_task_index - 1
                                         ELSE active_task_index]_vars

\* delete_task has just removed a task, and a task created before the
\* active one is no longer in the list.
C16_Witness ==
    /\ last.op = "delete_task" /\ last.err = "Ok"
    /\ active_task_index # None
    /\ active_task_index < Len(tasks) - 1
    /\ \E id \in 1..(tasks[active_task_index + 1].id - 1) :
          \A task \in Range(tasks) : task.id # id

\* ---------------------------------------------------------------- C17
\* 1-based position in ts of the task created as number id.
PositionOf(ts, id) == CHOOSE k \in 1..Len(ts) : ts[k].id = id

\* C17: delete_completed_tasks removes every Completed task and no other,
\* keeps the order of the remaining tasks and returns the number of tasks
\* removed; without Completed tasks it returns 0 and changes nothing.
C17_DeleteCompleted ==
    [][(last'.op = "delete_completed_tasks" /\ DeleteCompletedTasks) =>
          /\ last'.err = "Ok"
          /\ \A task \in Range(tasks') :
                task.status # "Completed" /\ task \in Range(tasks)
          /\ \A task \in Range(tasks) :
                task.status # "Completed" => task \in Range(tasks')
          /\ \A i, j \in 1..Len(tasks') :
                i < j => PositionOf(tasks, tasks'[i].id)
                           < PositionOf(tasks, tasks'[j].id)
          /\ last'.ret = Len(tasks) - Len(tasks')
          /\ last'.ret = Cardinality({k \in 1..Len(tasks) :
                                        tasks[k].status = "Completed"})
          /\ ~HasCompleted =>
                /\ last'.ret = 0
                /\ tasks' = tasks
                /\ active_task_index' = active_task_index]_vars

\* delete_completed_tasks has just removed two tasks and left several.
C17_Witness ==
    /\ last.op = "delete_completed_tasks" /\ last.err = "Ok"
    /\ last.ret = 2
    /\ Len(tasks) >= 2
    /\ \E task \in Range(tasks) : task.status = "Paused"

\* ---------------------------------------------------------------- C18
\* C18: in every reachable state, those produced by retention cleanup
\* included, delete_completed_tasks lowers active_task_index by the number
\* of removed tasks that preceded it, so that current_task() designates the
\* same task after the call as before.
C18_DeleteCompletedKeepsActive ==
    [][(/\ last'.op = "delete_completed_tasks"
        /\ active_task_index # None
        /\ DeleteCompletedTasks) =>
          /\ active_task_index' = active_task_index
                - Cardinality({k \in 1..active_task_index :
                                 tasks[k].status = "Completed"})
          /\ current_task(Self') = current_task(Self)]_vars

C20_CleanupKeepsLive ==
    [][(last'.op = "cleanup_old_tasks" /\ CleanupOldTasks) =>
          /\ \A task \in Range(tasks) :
                task.status \in {"Running", "Paused"} => task \in Range(tasks')
          /\ current_task(Self') = current_task(Self)
          /\ (active_task_index' # None) <=> (active_task_index # None)]_vars

\* Retention cleanup has just cut a list down to the cap; the list holds
\* the Running active task, Paused tasks and Completed ones.
C20_Witness ==
    /\ last.op = "cleanup_old_tasks"
    /\ Len(tasks) = MAX_TASKS
    /\ active_task_index # None
    /\ tasks[active_task_index + 1].status = "Running"
    /\ \E task \in Range(tasks) : task.status = "Paused"
    /\ HasCompleted

\* ---------------------------------------------------------------- C21
\* C21: retention cleanup discards the oldest Completed tasks first: every
\* Completed task it discards has created_at less than or equal to the
\* created_at of every Completed task it retains.
C21_OldestFirst ==
    [][(last'.op = "cleanup_old_tasks" /\ CleanupOldTasks) =>
          \A d \in Range(tasks) : \A r \in Range(tasks') :
              (/\ d.status = "Completed"
               /\ d \notin Range(tasks')
               /\ r.status = "Completed") => d.created_at <= r.created_at]_vars

\* Retention cleanup has just cut the list down to the cap: it kept
\* Completed tasks, and a task created before one of them is gone.
C21_Witness ==
    /\ last.op = "cleanup_old_tasks"
    /\ Len(tasks) = MAX_TASKS
    /\ \E r \in Range(tasks) :
          /\ r.status = "Completed"
          /\ \E id \in 1..(r.id - 1) : \A task \in Range(tasks) : task.id # id

\* ---------------------------------------------------------------- C22
\* The tasks of ts, by the ordinal of their creation, in list order.
Ids(ts) == [k \in 1..Len(ts) |-> ts[k].id]

\* The tasks of ts that are also in ts2 stand in ts2 in the same order.
SameOrder(ts, ts2) ==
    LET a == Ids(ts)
        b == Ids(ts2)
        inA == Range(a)
        inB == Range(b)
    IN SelectSeq(a, LAMBDA id : id \in inB) = SelectSeq(b, LAMBDA id : id \in inA)

\* C22 as stated: any two tasks that are both still stored appear in the
\* task list in the order in which they were started.
C22_InsertionOrder ==
    \A i, j \in 1..Len(tasks) : i < j => tasks[i].id < tasks[j].id

\* C22 as amended: every operation other than a retention cleanup that
\* rewrites the list keeps the tasks that remain in their order, so that
\* the index of a task changes only when an earlier task is removed; a
\* rewriting cleanup keeps the order among the tasks that are not Completed
\* (and moves them before the Completed ones).
C22_OrderKeptByOperations ==
    [][/\ last'.op # "cleanup_old_tasks" => SameOrder(tasks, tasks')
       /\ last'.op = "cleanup_old_tasks" =>
             SameOrder(SelectSeq(tasks, LAMBDA task : ~is_completed(task)), tasks')]_vars

\* An operation has just run on a list that retention cleanup had
\* reordered: a task started later stands before one started earlier.
C22_Witness ==
    /\ last.op \in {"delete_task", "pause_current_task", "start_task"}
    /\ \E i, j \in 1..Len(tasks) : i < j /\ tasks[i].id > tasks[j].id

C24_SaveAtomic ==
    /\ read(fs, fs.target) = hist.committed
    /\ (hist.initial # <<>> /\ well_formed(hist.initial[1]))
       => (fs.target # NoFile /\ well_formed(fs.data[fs.target]))

\* A save was interrupted inside write_all: the temporary file holds part
\* of a text, the store a whole one.
C24_Witness ==
    /\ procs["A"].pc = "interrupted"
    /\ fs.tmp # NoFile /\ fs.data[fs.tmp] # <<>> /\ ~well_formed(fs.data[fs.tmp])
    /\ fs.target # NoFile /\ well_formed(fs.data[fs.target])

\* ---------------------------------------------------------------- C25
\* C25: with the save steps of two invocations interleaved in any way, a
\* reader of the store reads the text it held at the start or a text that
\* one of the invocations wrote in full, never part of a text and never an
\* emptied file.
C25_ReaderSeesComplete ==
    seen # <<>> =>
        \/ seen[1] = hist.initial
        \/ \E text \in hist.written : seen[1] = <<text>>

\* ---------------------------------------------------------------- C26
\* C26: when the invocations have all ended, the store holds exactly the
\* manager of the invocation whose save ended last, be that the last save
\* to return or the last save whose rename took effect; it holds no mixture
\* of two managers.
C26_LastWriterWins ==
    ((\A p \in Procs : procs[p].pc \in Terminal) /\ hist.finished # <<>>)
    => \/ read(fs, fs.target) = <<to_string_pretty(hist.finished[1])>>
       \/ read(fs, fs.target) = hist.committed

\* ---------------------------------------------------------------- C27
\* C27: load_or_create returns Ok on every store; on a missing store and on
\* one that does not parse it returns the empty manager, on one that parses
\* the stored manager with cleanup_old_tasks applied.
C27_LoadOrCreate ==
    LET text == read(fs, fs.target)
        r == load_or_create(fs)
    IN /\ r.err = "Ok"
       /\ (text = <<>> \/ ~well_formed(text[1]))
          => (r.m.tasks = <<>> /\ r.m.active_task_index = None)
       /\ (text # <<>> /\ well_formed(text[1]))
          => r.m = cleanup_old_tasks(from_str(text[1]).m)

\* The store does not parse, and an invocation that loaded it runs
\* start_task on the empty manager.
C27_Witness ==
    /\ fs.target # NoFile /\ ~well_formed(fs.data[fs.target])
    /\ \E p \in Procs : procs[p].pc = "create" /\ Len(procs[p].m.tasks) = 1

\* ---------------------------------------------------------------- C28
\* C28: an invocation whose command returns an error goes to exit(1) with
\* no save, and the store stays as it was, even when the manager it loaded
\* was changed by cleanup_old_tasks; an invocation whose command returns Ok
\* goes on to one save, of the manager the command left.
C28_InvocationFrame ==
    [][\A p \in {"A"} :
        /\ hist'.inv # hist.inv =>
              /\ procs'[p].err # "Ok" =>
                    (procs'[p].pc = "exit1" /\ fs' = fs /\ hist'.attempts[p] = 0)
              /\ procs'[p].err = "Ok" => procs'[p].pc = "create"
        /\ procs[p].pc = "exit1" => (fs' = fs /\ hist'.attempts[p] = 0)
        /\ procs'[p].pc \in {"write", "sync", "rename", "done"}
              => hist'.attempts[p] = 1
        /\ (procs[p].pc = "rename" /\ procs'[p].pc = "done")
              => fs'.data[fs'.target] = to_string_pretty(procs[p].m)
      ]_vars

\* A command has failed on a manager that cleanup_old_tasks had shortened
\* on loading; the store still holds the longer list.
C28_Witness ==
    /\ procs["A"].pc = "exit1"
    /\ fs.target # NoFile /\ well_formed(fs.data[fs.target])
    /\ Len(from_str(fs.data[fs.target]).m.tasks) > Len(procs["A"].m.tasks)

\* ---------------------------------------------------------------- C29
\* C29: a successful rename_task(k, new_label) on a task of any status
\* returns the previous label and changes only that task's label: every
\* task's status, started_at, accumulated_duration and position, the task
\* count and active_task_index are unchanged.  (A label that is not blank
\* is accepted for a task of any status.)
C29_RenameFrame ==
    [][\A k \in 1..Len(tasks) : \A new_label \in RenameLabels :
          (/\ last'.op = "rename_task"
           /\ last'.err = "Ok" \/ new_label \in {"b", " b "}
           /\ RenameTask(k, new_label)) =>
              /\ last'.err = "Ok"
              /\ last'.ret = tasks[k].label
              /\ Len(tasks') = Len(tasks)
              /\ active_task_index' = active_task_index
              /\ tasks'[k] = [tasks[k] EXCEPT !.label = new_label]
              /\ \A j \in 1..Len(tasks) : j # k => tasks'[j] = tasks[j]]_vars

\* rename_task has just succeeded; the list holds a renamed Completed
\* task, a renamed Paused task and a renamed Running task.
C29_Witness ==
    /\ last.op = "rename_task" /\ last.err = "Ok"
    /\ \A status \in TaskStatus :
          \E task \in Range(tasks) : task.status = status /\ task.label # "a"

\* ---------------------------------------------------------------- C30
\* No label has changed.
LabelsUnchanged ==
    /\ Len(tasks') = Len(tasks)
    /\ \A j \in 1..Len(tasks) : tasks'[j].label = tasks[j].label

ClockBehindActive ==
    \E task \in current_task(Self) :
        is_running(task) /\ task.started_at # None /\ now < task.started_at

C31_InvalidDuration ==
    [][(/\ ClockBehindActive
        /\ last'.op \in {"pause_current_task", "complete_current_task", "start_task"}
        /\ \/ PauseCurrentTask
           \/ CompleteCurrentTask
           \/ StartTask("a", MaxLen, 0))
       => /\ last'.err = "InvalidDuration"
          /\ tasks' = tasks
          /\ active_task_index' = active_task_index]_vars

\* start_task has just failed with InvalidDuration on a manager whose
\* active task is Running and was started after the present clock reading.
C31_Witness ==
    /\ last.op = "start_task" /\ last.err = "InvalidDuration"
    /\ ClockBehindActive
    /\ single = <<>>

\* ---------------------------------------------------------------- C32
\* C32: total_duration always returns a duration: for a Running task read
\* at a clock reading earlier than started_at exactly accumulated_duration,
\* for a Running task otherwise accumulated_duration + (now - started_at),
\* for a Paused or Completed task accumulated_duration.
C32_TotalDuration ==
    \A task \in Range(tasks) \cup Range(single) :
        LET total == total_duration(task, now)
        IN /\ total \in Nat
           /\ (is_running(task) /\ now < task.started_at)
                 => total = task.accumulated_duration
           /\ (is_running(task) /\ now >= task.started_at)
                 => total = task.accumulated_duration + (now - task.started_at)
           /\ (is_paused(task) \/ is_completed(task))
                 => total = task.accumulated_duration

\* A Running task with time accumulated in an earlier session is read with
\* the clock behind started_at, next to a Paused task.
C32_Witness ==
    /\ \E task \in Range(tasks) :
          /\ is_running(task) /\ now < task.started_at
          /\ task.accumulated_duration > 0
    /\ \E task \in Range(tasks) : is_paused(task)

\* ---------------------------------------------------------------- C33
\* C33: in every step, a task that is in the list before and after keeps
\* its created_at, its accumulated_duration does not decrease, and it
\* changes only if the task was Running before the step and is not Running
\* after it; resume_current_task, delete_task, delete_completed_tasks,
\* rename_task and cleanup_old_tasks change no accumulated_duration.
C33_AccumulatedMonotonic ==
    [][\A k \in 1..Len(tasks) : \A j \in 1..Len(tasks') :
          tasks[k].id = tasks'[j].id =>
            /\ tasks'[j].created_at = tasks[k].created_at
            /\ tasks'[j].accumulated_duration >= tasks[k].accumulated_duration
            /\ tasks'[j].accumulated_duration # tasks[k].accumulated_duration
                  => (is_running(tasks[k]) /\ ~is_running(tasks'[j]))
            /\ last'.op \in {"resume_current_task", "delete_task",
                             "delete_completed_tasks", "rename_task",
                             "cleanup_old_tasks"}
                  => tasks'[j].accumulated_duration = tasks[k].accumulated_duration]_vars

\* start_task has just paused the task that was Running, and the time of
\* its session is in accumulated_duration.
C33_Witness ==
    /\ last.op = "start_task" /\ last.err = "Ok"
    /\ \E task \in Range(tasks) :
          is_paused(task) /\ task.accumulated_duration > 0
                          /\ task.accumulated_duration = task.ended

\* ---------------------------------------------------------------- C34
\* C34: the branches that clear active_task_index in delete_task and in
\* delete_completed_tasks are never taken: no successful call of either
\* changes active_task_index from Some to None.
C34_ClearingUnreachable ==
    [][(/\ last'.op \in {"delete_task", "delete_completed_tasks"}
        /\ last'.err = "Ok"
        /\ active_task_index # None)
       => active_task_index' # None]_vars

\* delete_completed_tasks has just run on a manager with an active task and
\* has left the index on another task than the Running one; the index is
\* still Some.
C34_Witness ==
    /\ last.op = "delete_completed_tasks" /\ last.err = "Ok"
    /\ active_task_index # None
    /\ \E task \in Range(tasks) : is_running(task)
    /\ ~has_running_task(Self)

\* ---------------------------------------------------------------- C35
\* C35: when cleanup_old_tasks rewrites a list of more than MAX_TASKS tasks,
\* the new list is all tasks that are not Completed, in the order they had,
\* followed by the Completed tasks that are kept, in ascending order of
\* created_at.
C35_CleanupLayout ==
    [][(last'.op = "cleanup_old_tasks" /\ Len(tasks) > MAX_TASKS) =>
          LET live == SelectSeq(tasks, LAMBDA task : ~is_completed(task))
          IN /\ Len(tasks') >= Len(live)
             /\ SubSeq(tasks', 1, Len(live)) = live
             /\ \A j \in (Len(live) + 1)..Len(tasks') :
                   /\ is_completed(tasks'[j])
                   /\ \A i \in (Len(live) + 1)..(j - 1) :
                         tasks'[i].created_at <= tasks'[j].created_at]_vars

\* cleanup_old_tasks has just rewritten a list whose creation times fall
\* along the list: behind the tasks that are not Completed, the Completed
\* tasks stand in the reverse of the order they were started in.
C35_Witness ==
    /\ last.op = "cleanup_old_tasks"
    /\ Len(tasks) = MAX_TASKS
    /\ \E i, j \in 1..Len(tasks) :
          /\ i < j
          /\ is_completed(tasks[i]) /\ is_completed(tasks[j])
          /\ tasks[i].id > tasks[j].id
          /\ tasks[i].created_at < tasks[j].created_at
    /\ \E task \in Range(tasks) : is_paused(task)

\* ---------------------------------------------------------------- C36
\* C36: cleanup_old_tasks leaves tasks and active_task_index as they are
\* when the list holds MAX_TASKS tasks or fewer, and applying it to its own
\* result changes nothing.
C36_CleanupIdempotent ==
    [][last'.op = "cleanup_old_tasks" =>
          /\ Len(tasks) <= MAX_TASKS =>
                (tasks' = tasks /\ active_task_index' = active_task_index)
          /\ cleanup_old_tasks(Manager(tasks', active_task_index'))
                = Manager(tasks', active_task_index')]_vars

\* cleanup_old_tasks has just returned a list that is still longer than
\* MAX_TASKS, so that a second application rewrites it again.
C36_Witness ==
    /\ last.op = "cleanup_old_tasks"
    /\ Len(tasks) > MAX_TASKS
    /\ active_task_index # None

C38_ReadOnlyCommands ==
    \A p \in {"A"} :
        (/\ procs[p].pc = "done" /\ procs[p].err = "Ok"
         /\ hist.command[p] \in {"status", "list"}
         /\ hist.before[p] # <<>>
         /\ well_formed(hist.before[p][1]))
        => LET stored == from_str(hist.before[p][1]).m
               left == from_str(fs.data[fs.target])
           IN /\ left.err = "Ok"
              /\ Len(stored.tasks) <= MAX_TASKS => left.m = stored
              /\ Len(stored.tasks) > MAX_TASKS => left.m = cleanup_old_tasks(stored)

\* A status invocation has loaded a store of more than MAX_TASKS tasks and
\* has saved MAX_TASKS of them.
C38_Witness ==
    /\ procs["A"].pc = "done" /\ procs["A"].err = "Ok"
    /\ hist.command["A"] = "status"
    /\ hist.before["A"] # <<>>
    /\ well_formed(hist.before["A"][1])
    /\ Len(from_str(hist.before["A"][1]).m.tasks) > MAX_TASKS
    /\ Len(from_str(fs.data[fs.target]).m.tasks) = MAX_TASKS

\* ---------------------------------------------------------------- C39
\* C39: in every reachable state has_running_task() is true exactly when
\* some task of the list is Running.
C39_HasRunningTask ==
    has_running_task(Self) <=> (\E task \in Range(tasks) : is_running(task))

\* ---------------------------------------------------------------- C40
\* C40: a Paused task that active_task_index does not designate, which is
\* a task displaced by a later start_task, is not designated by any later
\* step: as long as it is in the list it stays Paused, outside
\* active_task_index, with its accumulated_duration unchanged.
C40_DisplacedStaysPaused ==
    [][\A k \in 1..Len(tasks) :
          (is_paused(tasks[k]) /\ active_task_index # k - 1) =>
             \A j \in 1..Len(tasks') :
                tasks'[j].id = tasks[k].id =>
                   /\ active_task_index' # j - 1
                   /\ is_paused(tasks'[j])
                   /\ tasks'[j].accumulated_duration = tasks[k].accumulated_duration]_vars

=============================================================================
